---- MODULE Spec2Model ----
(***************************************************************************)
(* Model of cpp/src/jni/dataset/jni_wrapper.cc: the JNI bridge between the *)
(* Java dataset API and the native dataset/scan engine.                    *)
(*                                                                         *)
(* The specifications of this module:                                      *)
(*   SpecScan    - handle-based entry points, DisposableScannerAdaptor and *)
(*                 the export path of nextRecordBatch;                     *)
(*   SpecExport  - nextRecordBatch over every shape of record batch;       *)
(*   SpecFormat  - the entry points that take a file format id;            *)
(*   SpecGen     - SimpleIteratorFragment / MakeJavaDatasetScanner, the    *)
(*                 generator pulled over a Java NativeRecordBatchIterator; *)
(*   SpecFrag    - several generators made from one fragment;              *)
(*   SpecPool    - JNI_OnLoad / JNI_OnUnload and the memory pool entry     *)
(*                 points;                                                 *)
(*   SpecRelease - releaseMemoryPool of a live pool, statement by          *)
(*                 statement;                                              *)
(*   SpecBridge  - allocations through a pool with ReserveFromJava;        *)
(*   SpecThreads - ReserveFromJava called from several threads.            *)
(***************************************************************************)
EXTENDS Integers, Sequences, FiniteSets, Bags, TLC

(***************************************************************************)
(* Bounds                                                                  *)
(***************************************************************************)
MaxHandles == 3

MaxScanLen == 2

MaxBuf == 2

MaxPulls == 4

MaxPools == 2

MaxSize == 2

MaxOps == 3

NumCols == 2

MaxGens == 2

NumThreads == 2

MaxFormat == 2

MaxHigh == 1

(***************************************************************************)
(* State                                                                   *)
(***************************************************************************)
VARIABLES
  registry,     \* handle -> native object held by the handle table
  nextId,       \* next handle value CreateNativeRef hands out
  issued,       \* history: the kind of object each handle was created for
  closed,       \* history: handles on which a close entry point was called
  eosCount,     \* history: end-of-stream reports per scanner handle (capped)
  call,         \* the last entry-point call and what it returned / raised
  outStruct,    \* the caller-provided ArrowArray struct of the last call
  srcBatch,     \* history: the record batch the last call pulled and exported
  fileCall      \* the file_format_id of the last call, the format it was
                \* resolved to, and whether FileSystemDataset::Write was called

scanVars == <<registry, nextId, issued, closed, eosCount, call,
              outStruct, srcBatch, fileCall>>

VARIABLES
  hasNextLog,   \* history: what each hasNext call on the Java iterator did
  nextCalls,    \* history: number of next calls made on the Java iterator
  cur_rb,       \* State::cur_rb of the generator (0 is nullptr)
  delivered,    \* history: the batches the generator handed to its puller
  pull,         \* the last pull of the generator and its result
  pullCount,    \* number of pulls made
  endCount,     \* history: end-of-stream reports of the generator (capped)
  faults,       \* history: a pull ran unattached, the Java iterator raised,
                \* or an import failed
  imports,      \* history: ArrowArray structs released / left unreleased
  aborted       \* the process was aborted

genVars == <<hasNextLog, nextCalls, cur_rb, delivered, pull, pullCount,
             endCount, faults, imports, aborted>>

VARIABLES
  lifecycle,               \* "before" JNI_OnLoad, "loaded", or "after" JNI_OnUnload
  default_memory_pool_id,  \* the file-scope variable of that name
  hostIds,                 \* history: identifiers getDefaultMemoryPool returned
  nextPool,                \* number of the next listenable pool
  pools,                   \* per listenable pool: its state and how often it was deleted
  refs,                    \* per NewGlobalRef of a listener: held, and DeleteGlobalRef count
  defaultDeletes,          \* how often the default pool object was deleted
  poolCall,                \* the last memory pool entry-point call
  live,                    \* allocations made through a pool and not yet freed
  reserved,                \* sizes passed to the Java listener's reserve
  unreserved,              \* sizes passed to the Java listener's unreserve
  bridge,                  \* the last OnReservation / OnRelease call
  bridgeFailed,            \* history: some OnReservation / OnRelease failed
  ops,                     \* number of allocations asked for
  crashed                  \* the process died

poolVars == <<lifecycle, default_memory_pool_id, hostIds, nextPool, pools,
              refs, defaultDeletes, poolCall, live, reserved, unreserved,
              bridge, bridgeFailed, ops, crashed>>

VARIABLES
  itr_,         \* SimpleIteratorFragment::itr_ over a Java iterator that answers
                \* false for good once it has: next calls made, and ended
  states,       \* the State of each Generator made by ScanBatchesAsync
  passes,       \* history: per Generator, the batches it delivered and
                \* whether it reported end-of-stream
  fragPulls     \* number of pulls made on the Generators

fragVars == <<itr_, states, passes, fragPulls>>

VARIABLES
  thr,          \* per thread: its call of OnReservation / OnRelease in progress
  pending       \* per JNIEnv: a Java exception is pending on that thread

threadVars == <<thr, pending>>

VARIABLES
  rel           \* per listenable pool: the pool, its listener and the global
                \* reference while releaseMemoryPool runs statement by statement

relVars == <<rel>>

vars == <<scanVars, genVars, poolVars, fragVars, threadVars, relVars>>

(***************************************************************************)
(* Arrays and record batches                                               *)
(***************************************************************************)
\* A buffer of n elements; the element values tag their position so that a
\* shifted or truncated view differs from the right one.
Buffer(n) == [i \in 1..n |-> i]

\* arrow::Array: a view (offset, length) into a buffer of MaxBuf elements.
\* `fresh` tells an array made by Concatenate from one that came out of the
\* scan.
Arrays ==
  { [buf |-> Buffer(MaxBuf), offset |-> o, length |-> l, fresh |-> FALSE] :
      <<o, l>> \in { t \in (0..MaxBuf) \X (0..MaxBuf) : t[1] + t[2] <= MaxBuf } }

\* The logical (sliced) view of an array.
Logical(a) == SubSeq(a.buf, a.offset + 1, a.offset + a.length)

Batches ==
  { [schema |-> "projected", num_rows |-> l, columns |-> cs] :
      <<l, cs>> \in { t \in (0..MaxBuf) \X [1..NumCols -> Arrays] :
                        \A i \in 1..NumCols : t[2][i].length = t[1] } }

NullBatch == [schema |-> "none", num_rows |-> 0, columns |-> <<>>]

\* arrow::Concatenate({array}): a new array at offset zero holding the
\* logical elements.
Concatenate(a) ==
  [buf |-> Logical(a), offset |-> 0, length |-> a.length, fresh |-> TRUE]

OffsetZeroed_passthrough(array) == array

OffsetZeroed_copyAll(array) == Concatenate(array)

\* The column loop of nextRecordBatch.
OffsetZeroed(array) ==
  IF array.offset = 0 THEN array ELSE Concatenate(array)

OffsetZeroedBatch(record_batch) ==
  [schema   |-> record_batch.schema,
   num_rows |-> record_batch.num_rows,
   columns  |-> [i \in 1..Len(record_batch.columns) |->
                   OffsetZeroed(record_batch.columns[i])]]

(***************************************************************************)
(* Handle table                                                            *)
(***************************************************************************)
Handles == 1..MaxHandles

Absent == [kind |-> "absent", remaining |-> 0]

NotFound == [kind |-> "NotFound", remaining |-> 0]

CreateNativeRef(reg, id, obj) == [reg EXCEPT ![id] = obj]

RetrieveNativeInstance(reg, id, kind) ==
  IF id \in DOMAIN reg /\ reg[id].kind = kind THEN reg[id] ELSE NotFound

ReleaseNativeRef(reg, id) == [reg EXCEPT ![id] = Absent]

IssuedHandles == { h \in Handles : issued[h] # "absent" }

\* Handles an entry point for objects of `kind` is called with: handles
\* created for that kind (live or already released) and a value that was
\* never issued.
HandlesFor(kind) ==
  { h \in Handles : issued[h] = kind \/ h = nextId }

(***************************************************************************)
(* Failure reporting                                                       *)
(***************************************************************************)
\* JNI_METHOD_START / JNI_METHOD_END: a JniPendingException raised inside
\* the body becomes a RuntimeException carrying its message and the entry
\* point returns the fallback expression.
JNI_METHOD_END_noFallback(exc, fallback, ret) == [ret |-> ret, thrown |-> exc]

JNI_METHOD_END(exc, fallback, ret) ==
  IF exc # "none"
    THEN [ret |-> fallback, thrown |-> exc]
    ELSE [ret |-> ret, thrown |-> "none"]

NoExport_partial ==
  /\ outStruct' = [NullBatch EXCEPT !.schema = "projected"]
  /\ srcBatch' = NullBatch

\* outStruct and srcBatch describe the call just made: a call that exports
\* nothing leaves the (empty) struct it was given as it was.
NoExport == outStruct' = NullBatch /\ srcBatch' = NullBatch

NoFileCall == [id |-> [hi |-> 0, lo |-> 0], format |-> "none", wrote |-> FALSE]

Returned(op, h, r) ==
  /\ call' = [op |-> op, h |-> h, ret |-> r.ret, thrown |-> r.thrown]
  /\ fileCall' = NoFileCall

\* The same for the two entry points that take a file_format_id.
ReturnedFile(op, r, id, format, wrote) ==
  /\ call' = [op |-> op, h |-> 0, ret |-> r.ret, thrown |-> r.thrown]
  /\ fileCall' = [id |-> id, format |-> format, wrote |-> wrote]

(***************************************************************************)
(* File formats                                                            *)
(***************************************************************************)
\* A jlong is written as its high and low 32-bit words, hi * 2^32 + lo; a
\* jint in 0..MaxFormat is the jlong with high word 0.
JLongs == [hi : 0..MaxHigh, lo : 0..MaxFormat]

JInts == 0..MaxFormat

\* The jlong of a jint argument.
Widen(i) == [hi |-> 0, lo |-> i]

\* The conversion of a jlong argument to a jint parameter: the low word.
Narrow(l) == l.lo

\* GetFileFormat(jint file_format_id).
GetFileFormat(file_format_id) ==
  IF file_format_id = 0
    THEN [status |-> "ok", format |-> "parquet"]
    ELSE [status |-> "illegal file format id", format |-> "none"]

(***************************************************************************)
(* DisposableScannerAdaptor                                                *)
(***************************************************************************)
\* batch_itr_.Next() of the scan started by Scanner::ScanBatches: yields the
\* scan's batches in order, then the end marker.
BatchItrNext(a, b, ok) ==
  IF a.remaining = 0
    THEN [status |-> "ok", batch |-> NullBatch, adaptor |-> a]
    ELSE IF ~ok
      THEN [status |-> "scan failed", batch |-> NullBatch, adaptor |-> a]
      ELSE [status |-> "ok", batch |-> b,
            adaptor |-> [a EXCEPT !.remaining = @ - 1]]

NextBatch_restart(a, b, ok) ==
  IF a.remaining = 0
    THEN [status |-> "ok", batch |-> NullBatch,
          adaptor |-> [a EXCEPT !.remaining = 1]]
    ELSE BatchItrNext(a, b, ok)

\* DisposableScannerAdaptor::Next / NextBatch.
NextBatch(a, b, ok) == BatchItrNext(a, b, ok)

(***************************************************************************)
(* Entry points on handles                                                 *)
(***************************************************************************)
ScanFrame == UNCHANGED <<issued, closed, eosCount>> /\ NoExport

\* ok: whether FileSystemDatasetFactory::Make succeeds.
makeFileSystemDatasetFactory(file_format_id, ok) ==
  LET file_format == GetFileFormat(file_format_id)
      exc == IF file_format.status # "ok" THEN file_format.status
             ELSE IF ~ok THEN "factory failed" ELSE "none"
  IN /\ nextId <= MaxHandles
     /\ IF exc = "none"
          THEN /\ registry' = CreateNativeRef(registry, nextId,
                                [kind |-> "factory", remaining |-> 0])
               /\ issued' = [issued EXCEPT ![nextId] = "factory"]
               /\ nextId' = nextId + 1
          ELSE UNCHANGED <<registry, issued, nextId>>
     /\ ReturnedFile("makeFileSystemDatasetFactory",
                     JNI_METHOD_END(exc, "-1", "handle"),
                     Widen(file_format_id), file_format.format, FALSE)
     /\ UNCHANGED <<closed, eosCount>>
     /\ NoExport

\* writeFromScannerToFile; fail is the step that fails when it is reached:
\* GetJavaVM, FromSchemaByteArray, MakeJavaDatasetScanner, FileSystemFromUri
\* or FileSystemDataset::Write.  The jlong file_format_id is passed to
\* GetFileFormat's jint parameter.
writeFromScannerToFile(file_format_id, fail) ==
  LET file_format == GetFileFormat(Narrow(file_format_id))
      exc == IF fail = "vm" THEN "Unable to get JavaVM instance"
             ELSE IF fail = "schema" THEN "schema failed"
             ELSE IF fail = "scanner" THEN "scanner failed"
             ELSE IF file_format.status # "ok" THEN file_format.status
             ELSE IF fail = "filesystem" THEN "filesystem failed"
             ELSE IF fail = "write" THEN "write failed"
             ELSE "none"
      resolved == IF fail \in {"vm", "schema", "scanner"} THEN "none"
                  ELSE file_format.format
  IN /\ ReturnedFile("writeFromScannerToFile",
                     JNI_METHOD_END(exc, "void", "void"),
                     file_format_id, resolved, exc \in {"none", "write failed"})
     /\ UNCHANGED <<registry, nextId, issued, closed, eosCount>>
     /\ NoExport

inspectSchema(dataset_factor_id, ok) ==
  LET d == RetrieveNativeInstance(registry, dataset_factor_id, "factory")
      exc == IF d = NotFound THEN "NotFound"
             ELSE IF ~ok THEN "inspect failed" ELSE "none"
  IN /\ Returned("inspectSchema", dataset_factor_id,
                 JNI_METHOD_END(exc, "null", "bytes"))
     /\ UNCHANGED <<registry, nextId>>
     /\ ScanFrame

createDataset(dataset_factory_id, ok) ==
  LET d == RetrieveNativeInstance(registry, dataset_factory_id, "factory")
      exc == IF d = NotFound THEN "NotFound"
             ELSE IF ~ok THEN "finish failed" ELSE "none"
  IN /\ nextId <= MaxHandles
     /\ IF exc = "none"
          THEN /\ registry' = CreateNativeRef(registry, nextId,
                       [kind |-> "dataset", remaining |-> 0])
               /\ issued' = [issued EXCEPT ![nextId] =
                                "dataset"]
               /\ nextId' = nextId + 1
          ELSE UNCHANGED <<registry, issued, nextId>>
     /\ Returned("createDataset", dataset_factory_id,
                 JNI_METHOD_END(exc, "-1", "handle"))
     /\ UNCHANGED <<closed, eosCount>>
     /\ NoExport

\* memory_pool_id is 0 (nullptr) or the address of a pool; n is the number
\* of batches the scan started by DisposableScannerAdaptor::Create holds.
createScanner(dataset_id, memory_pool_id, ok, n) ==
  LET dataset == RetrieveNativeInstance(registry, dataset_id, "dataset")
      exc == IF memory_pool_id = 0
               THEN "Memory pool does not exist or has been closed"
             ELSE IF dataset = NotFound THEN "NotFound"
             ELSE IF ~ok THEN "scanner failed" ELSE "none"
  IN /\ nextId <= MaxHandles
     /\ IF exc = "none"
          THEN /\ registry' = CreateNativeRef(registry, nextId,
                       [kind |-> "scanner", remaining |-> n])
               /\ issued' = [issued EXCEPT ![nextId] =
                                "scanner"]
               /\ nextId' = nextId + 1
          ELSE UNCHANGED <<registry, issued, nextId>>
     /\ Returned("createScanner", dataset_id,
                 JNI_METHOD_END(exc, "-1", "handle"))
     /\ UNCHANGED <<closed, eosCount>>
     /\ NoExport

getSchemaFromScanner(scanner_id, ok) ==
  LET a == RetrieveNativeInstance(registry, scanner_id, "scanner")
      exc == IF a = NotFound THEN "NotFound"
             ELSE IF ~ok THEN "serialize failed" ELSE "none"
  IN /\ Returned("getSchemaFromScanner", scanner_id,
                 JNI_METHOD_END(exc, "null", "bytes"))
     /\ UNCHANGED <<registry, nextId>>
     /\ ScanFrame

\* b: the batch the scan yields if it has one left; fail: the step of the
\* handler that fails when it is reached ("scan", "concat", "export") or
\* "none".
nextRecordBatch(scanner_id, b, fail) ==
  LET scanner_adaptor == RetrieveNativeInstance(registry, scanner_id, "scanner")
      r == NextBatch(scanner_adaptor, b, fail # "scan")
      needsCopy == \E i \in 1..Len(r.batch.columns) :
                      r.batch.columns[i].offset # 0
  IN IF scanner_adaptor = NotFound
       THEN /\ Returned("nextRecordBatch", scanner_id,
                        JNI_METHOD_END("NotFound", "false", "true"))
            /\ UNCHANGED <<registry, nextId>>
            /\ ScanFrame
     ELSE IF r.status # "ok"
       THEN /\ Returned("nextRecordBatch", scanner_id,
                        JNI_METHOD_END(r.status, "false", "true"))
            /\ registry' = [registry EXCEPT ![scanner_id] = r.adaptor]
            /\ UNCHANGED nextId
            /\ ScanFrame
     ELSE IF r.batch = NullBatch
       THEN /\ Returned("nextRecordBatch", scanner_id,
                        JNI_METHOD_END("none", "false", "false"))
            /\ registry' = [registry EXCEPT ![scanner_id] = r.adaptor]
            /\ eosCount' = [eosCount EXCEPT ![scanner_id] =
                               IF @ < 2 THEN @ + 1 ELSE @]
            /\ UNCHANGED <<nextId, issued, closed>>
            /\ NoExport
     ELSE IF needsCopy /\ fail = "concat"
       THEN /\ Returned("nextRecordBatch", scanner_id,
                        JNI_METHOD_END("concatenate failed", "false", "true"))
            /\ registry' = [registry EXCEPT ![scanner_id] = r.adaptor]
            /\ UNCHANGED nextId
            /\ ScanFrame
     ELSE IF fail = "export"
       THEN /\ Returned("nextRecordBatch", scanner_id,
                        JNI_METHOD_END("export failed", "false", "true"))
            /\ registry' = [registry EXCEPT ![scanner_id] = r.adaptor]
            /\ UNCHANGED nextId
            /\ ScanFrame
     ELSE /\ Returned("nextRecordBatch", scanner_id,
                      JNI_METHOD_END("none", "false", "true"))
          /\ registry' = [registry EXCEPT ![scanner_id] = r.adaptor]
          /\ outStruct' = OffsetZeroedBatch(r.batch)
          /\ srcBatch' = r.batch
          /\ UNCHANGED <<nextId, issued, closed, eosCount>>

\* The three close entry points: ReleaseNativeRef<T>(id).
CloseRef(op, id, kind) ==
  LET d == RetrieveNativeInstance(registry, id, kind)
  IN /\ IF d = NotFound
          THEN /\ UNCHANGED registry
               /\ Returned(op, id, JNI_METHOD_END("NotFound", "void", "void"))
          ELSE /\ registry' = ReleaseNativeRef(registry, id)
               /\ Returned(op, id, JNI_METHOD_END("none", "void", "void"))
     /\ closed' = closed \cup ({id} \cap IssuedHandles)
     /\ UNCHANGED <<nextId, issued, eosCount>>
     /\ NoExport

closeScanner_keep(scanner_id) ==
  /\ Returned("closeScanner", scanner_id,
              JNI_METHOD_END("none", "void", "void"))
  /\ closed' = closed \cup ({scanner_id} \cap IssuedHandles)
  /\ UNCHANGED <<registry, nextId, issued, eosCount>>
  /\ NoExport

closeScanner(scanner_id) == CloseRef("closeScanner", scanner_id, "scanner")

closeDataset(id) == CloseRef("closeDataset", id, "dataset")

closeDatasetFactory(id) == CloseRef("closeDatasetFactory", id, "factory")

(***************************************************************************)
(* MakeJavaDatasetScanner and SimpleIteratorFragment                       *)
(***************************************************************************)
NoPull ==
  [attached |-> TRUE, hasNext |-> "none", raised |-> FALSE, result |-> "none",
   value |-> 0]

\* The function iterator of MakeJavaDatasetScanner, one call.  attached:
\* whether GetEnv finds the calling thread attached; hn: what the Java
\* iterator's hasNext does; nx: what its next does; imp: whether
\* ImportRecordBatch succeeds; k: the number of the batch next would return.
\* The result is the set of outcomes the call can have:
\*   "error"  an arrow::Status error result,
\*   "end"    a null record batch,
\*   "value"  record batch number `value`,
\*   "throw"  a JniPendingException leaves the function,
\*   "crash"  the process dies inside the call.
\* A JNI call made while a Java exception is pending, and the use of the
\* null array a raising next returns, are undefined; hasNext returning an
\* unspecified value after it raised may read as false.
JavaIteratorNext(attached, hn, nx, imp, k) ==
  IF ~attached
    THEN {[kind |-> "error", value |-> 0, hasNext |-> "none", next |-> FALSE,
           raised |-> FALSE, released |-> 0, leaked |-> 0]}
  ELSE IF hn = "false"
    THEN {[kind |-> "end", value |-> 0, hasNext |-> "false", next |-> FALSE,
           raised |-> FALSE, released |-> 0, leaked |-> 0]}
  ELSE IF hn = "raise"
    THEN {[kind |-> "end", value |-> 0, hasNext |-> "raise", next |-> FALSE,
           raised |-> TRUE, released |-> 0, leaked |-> 0],
          [kind |-> "crash", value |-> 0, hasNext |-> "raise", next |-> FALSE,
           raised |-> TRUE, released |-> 0, leaked |-> 0]}
  ELSE IF nx = "raise"
    THEN {[kind |-> "crash", value |-> 0, hasNext |-> "true", next |-> TRUE,
           raised |-> TRUE, released |-> 0, leaked |-> 0]}
  ELSE IF imp = "fail"
    THEN {[kind |-> "throw", value |-> 0, hasNext |-> "true", next |-> TRUE,
           raised |-> FALSE, released |-> 0, leaked |-> 1]}
  ELSE {[kind |-> "value", value |-> k, hasNext |-> "true", next |-> TRUE,
         raised |-> FALSE, released |-> 1, leaked |-> 0]}

NextCallsMade_prefetch(res) == IF res.next THEN 2 ELSE 0

\* Calls of the Java iterator's next made by one call of the function
\* iterator.
NextCallsMade(res) == IF res.next THEN 1 ELSE 0

\* arrow::IsIterationEnd on the result of itr_.Next().
IsIterationEnd(res) == res.kind = "end"

Finished_stale(cur, res) ==
  IF IsIterationEnd(res)
    THEN [finished |-> TRUE, cur_rb |-> 0, died |-> FALSE]
    ELSE [finished |-> FALSE,
          cur_rb |-> IF cur # 0 THEN cur ELSE res.value,
          died |-> res.kind = "error"]

\* State::Finished, given the result of fragment->itr_.Next(): ValueOrDie
\* on an error result aborts the process.
Finished(cur, res) ==
  IF IsIterationEnd(res)
    THEN [finished |-> TRUE, cur_rb |-> 0, died |-> FALSE]
    ELSE [finished |-> FALSE, cur_rb |-> res.value, died |-> res.kind = "error"]

\* Generator::operator(): one pull.  res is the outcome of the one call of
\* the function iterator the pull makes (a non-end value is never null, so
\* the loop body returns on its first round).
GeneratorCall(attached, hn, res) ==
  LET f == Finished(cur_rb, res)
      result == IF res.kind = "crash" THEN "abort"
                ELSE IF res.kind = "throw" THEN "throw"
                ELSE IF f.died THEN "abort"
                ELSE IF f.finished THEN "end"
                ELSE "batch"
  IN /\ ~aborted
     /\ pullCount < MaxPulls
     /\ pullCount' = pullCount + 1
     /\ hasNextLog' = IF res.hasNext = "none" THEN hasNextLog
                      ELSE Append(hasNextLog, res.hasNext)
     /\ nextCalls' = nextCalls + NextCallsMade(res)
     /\ imports' = [released |-> imports.released + res.released,
                    leaked |-> imports.leaked + res.leaked]
     /\ faults' = (faults \/ res.kind \in {"error", "crash", "throw"}
                          \/ res.hasNext = "raise")
     /\ aborted' = (result = "abort")
     /\ cur_rb' = IF result \in {"end", "batch"} THEN f.cur_rb ELSE cur_rb
     /\ delivered' = IF result = "batch" THEN Append(delivered, f.cur_rb)
                     ELSE delivered
     /\ endCount' = IF result = "end" /\ endCount < 2 THEN endCount + 1
                    ELSE endCount
     /\ pull' = [attached |-> attached, hasNext |-> res.hasNext,
                 raised |-> res.raised, result |-> result,
                 value |-> IF result = "batch" THEN f.cur_rb ELSE 0]

(***************************************************************************)
(* Several Generators over one SimpleIteratorFragment                      *)
(***************************************************************************)
\* SimpleIteratorFragment::ScanBatchesAsync: a new Generator with a State of
\* its own (cur_rb = nullptr) that shares the fragment, hence itr_.  The
\* member used_ is never read or written.
ScanBatchesAsync ==
  /\ Len(states) < MaxGens
  /\ states' = Append(states, [cur_rb |-> 0])
  /\ passes' = Append(passes, [delivered |-> <<>>, ended |-> FALSE])
  /\ UNCHANGED <<itr_, fragPulls>>

\* What hasNext of the Java iterator behind itr_ can answer.
HasNextAnswers == IF itr_.ended THEN {"false"} ELSE {"true", "false"}

\* One pull of Generator g on an attached thread, with a Java iterator that
\* does not raise and batches that import.
PullGenerator(g, hn) ==
  LET res == CHOOSE r \in JavaIteratorNext(TRUE, hn, "ok", "ok", itr_.next + 1) :
                TRUE
      f == Finished(states[g].cur_rb, res)
  IN /\ fragPulls < MaxPulls
     /\ fragPulls' = fragPulls + 1
     /\ itr_' = [next |-> itr_.next + NextCallsMade(res),
                 ended |-> itr_.ended \/ res.hasNext = "false"]
     /\ states' = [states EXCEPT ![g] = [cur_rb |-> f.cur_rb]]
     /\ passes' = [passes EXCEPT ![g] =
                     [delivered |-> IF f.finished THEN @.delivered
                                    ELSE Append(@.delivered, f.cur_rb),
                      ended |-> @.ended \/ f.finished]]

(***************************************************************************)
(* Memory pools and ReserveFromJava                                        *)
(***************************************************************************)
\* The address of arrow::default_memory_pool().
DefaultPoolAddr == 100

\* Listenable pool number p lives at address p and holds global reference p.
PoolIds == 1..MaxPools

Sizes == 1..MaxSize

NoBridgeCall ==
  [op |-> "none", pool |-> 0, size |-> 0, attached |-> TRUE, raised |-> FALSE,
   status |-> "OK", hostCalls |-> <<>>, proceeded |-> FALSE]

\* arrow::dataset::jni::CheckException after the Java call.
CheckException(raised) ==
  IF raised THEN "Error during calling Java code from native code" ELSE "OK"

OnReservation_unchecked(attached, raises, size) ==
  IF ~attached
    THEN [status |-> "JNIEnv was not attached to current thread",
          hostCalls |-> <<>>]
    ELSE [status |-> "OK",
          hostCalls |-> <<[method |-> "reserve", size |-> size]>>]

\* ReserveFromJava::OnReservation.  attached: GetEnv returns JNI_OK on the
\* calling thread; raises: the Java listener's reserve raises.
OnReservation(attached, raises, size) ==
  IF ~attached
    THEN [status |-> "JNIEnv was not attached to current thread",
          hostCalls |-> <<>>]
    ELSE [status |-> CheckException(raises),
          hostCalls |-> <<[method |-> "reserve", size |-> size]>>]

OnRelease_reserve(attached, raises, size) ==
  IF ~attached
    THEN [status |-> "JNIEnv was not attached to current thread",
          hostCalls |-> <<>>]
    ELSE [status |-> CheckException(raises),
          hostCalls |-> <<[method |-> "reserve", size |-> size]>>]

\* ReserveFromJava::OnRelease.
OnRelease(attached, raises, size) ==
  IF ~attached
    THEN [status |-> "JNIEnv was not attached to current thread",
          hostCalls |-> <<>>]
    ELSE [status |-> CheckException(raises),
          hostCalls |-> <<[method |-> "unreserve", size |-> size]>>]

\* The Java listener's counters after the host calls of one bridge call.
HostCount(count, p, calls, method) ==
  [count EXCEPT ![p] =
     [n \in Sizes |->
        @[n] + Cardinality({i \in 1..Len(calls) :
                              calls[i].method = method /\ calls[i].size = n})]]

\* ReservationListenableMemoryPool::Allocate of `size` bytes on pool p: the
\* listener is asked first and the allocation is made only if it agrees.
Allocate(p, size, attached, raises) ==
  LET r == OnReservation(attached, raises, size)
  IN /\ ~crashed
     /\ pools[p].state = "live"
     /\ ops < MaxOps
     /\ ops' = ops + 1
     /\ reserved' = HostCount(reserved, p, r.hostCalls, "reserve")
     /\ unreserved' = HostCount(unreserved, p, r.hostCalls, "unreserve")
     /\ live' = IF r.status = "OK"
                  THEN [live EXCEPT ![p][size] = @ + 1] ELSE live
     /\ bridge' = [op |-> "OnReservation", pool |-> p, size |-> size,
                   attached |-> attached, raised |-> attached /\ raises,
                   status |-> r.status, hostCalls |-> r.hostCalls,
                   proceeded |-> r.status = "OK"]
     /\ bridgeFailed' = (bridgeFailed \/ r.status # "OK")
     /\ UNCHANGED <<lifecycle, default_memory_pool_id, hostIds, nextPool,
                    pools, refs, defaultDeletes, poolCall, crashed>>

\* ReservationListenableMemoryPool::Free of an allocation of `size` bytes
\* of pool p: the listener is told and the memory is given back.
Free(p, size, attached, raises) ==
  LET r == OnRelease(attached, raises, size)
  IN /\ ~crashed
     /\ pools[p].state = "live"
     /\ live[p][size] > 0
     /\ UNCHANGED ops
     /\ reserved' = HostCount(reserved, p, r.hostCalls, "reserve")
     /\ unreserved' = HostCount(unreserved, p, r.hostCalls, "unreserve")
     /\ live' = [live EXCEPT ![p][size] = @ - 1]
     /\ bridge' = [op |-> "OnRelease", pool |-> p, size |-> size,
                   attached |-> attached, raised |-> attached /\ raises,
                   status |-> r.status, hostCalls |-> r.hostCalls,
                   proceeded |-> TRUE]
     /\ bridgeFailed' = (bridgeFailed \/ r.status # "OK")
     /\ UNCHANGED <<lifecycle, default_memory_pool_id, hostIds, nextPool,
                    pools, refs, defaultDeletes, poolCall, crashed>>

PoolFrame == UNCHANGED <<live, reserved, unreserved, bridge, bridgeFailed, ops>>

\* JNI_OnLoad: ok is whether GetEnv and every class / method lookup succeed;
\* otherwise JNI_ERR is returned before the default pool id is set.
JNI_OnLoad(ok) ==
  /\ ~crashed
  /\ lifecycle # "loaded"
  /\ IF ok
       THEN /\ lifecycle' = "loaded"
            /\ default_memory_pool_id' = DefaultPoolAddr
       ELSE UNCHANGED <<lifecycle, default_memory_pool_id>>
  /\ poolCall' = [op |-> "JNI_OnLoad", id |-> 0]
  /\ UNCHANGED <<hostIds, nextPool, pools, refs, defaultDeletes, crashed>>
  /\ PoolFrame

JNI_OnUnload ==
  /\ ~crashed
  /\ lifecycle = "loaded"
  /\ lifecycle' = "after"
  /\ default_memory_pool_id' = -1
  /\ poolCall' = [op |-> "JNI_OnUnload", id |-> 0]
  /\ UNCHANGED <<hostIds, nextPool, pools, refs, defaultDeletes, crashed>>
  /\ PoolFrame

getDefaultMemoryPool ==
  /\ ~crashed
  /\ hostIds' = hostIds \cup {default_memory_pool_id}
  /\ poolCall' = [op |-> "getDefaultMemoryPool", id |-> default_memory_pool_id]
  /\ UNCHANGED <<lifecycle, default_memory_pool_id, nextPool, pools, refs,
                 defaultDeletes, crashed>>
  /\ PoolFrame

\* createListenableMemoryPool: vmOk is whether GetJavaVM returns JNI_OK.
\* The global reference is taken before the JavaVM is asked for.
createListenableMemoryPool(vmOk) ==
  /\ ~crashed
  /\ lifecycle = "loaded"
  /\ nextPool <= MaxPools
  /\ nextPool' = nextPool + 1
  /\ refs' = [refs EXCEPT ![nextPool] = [held |-> TRUE, deletes |-> 0]]
  /\ IF vmOk
       THEN /\ pools' = [pools EXCEPT ![nextPool] =
                            [state |-> "live", deletes |-> 0]]
            /\ poolCall' = [op |-> "createListenableMemoryPool",
                            id |-> nextPool]
       ELSE /\ UNCHANGED pools
            /\ poolCall' = [op |-> "createListenableMemoryPool", id |-> -1]
  /\ UNCHANGED <<lifecycle, default_memory_pool_id, hostIds, defaultDeletes,
                 crashed>>
  /\ PoolFrame

\* Identifiers releaseMemoryPool is called with: null, what
\* getDefaultMemoryPool returned, and the pools createListenableMemoryPool
\* returned (released or not).
ReleaseIds ==
  {0} \cup hostIds \cup {p \in PoolIds : pools[p].state # "none"}

\* What releaseMemoryPool(id) can do.  "return": one of the early returns;
\* "destroy": pool deleted and its listener's global reference deleted.
\* When id is not the address of a live ReservationListenableMemoryPool
\* (a pool already deleted, the default pool while default_memory_pool_id
\* is -1, or -1 itself) pool->get_listener() and delete pool are undefined:
\* the call may die, may delete the object again without a listener
\* ("redelete"), or may delete it and the stale reference ("redestroy").
ReleaseOutcomes(id) ==
  IF id = default_memory_pool_id \/ id = 0 THEN {"return"}
  ELSE IF id \in PoolIds /\ pools[id].state = "live" THEN {"destroy"}
  ELSE IF id \in PoolIds THEN {"crash", "redelete", "redestroy"}
  ELSE IF id = DefaultPoolAddr THEN {"crash", "redelete"}
  ELSE {"crash"}

Bump(n) == IF n < 2 THEN n + 1 ELSE n

releaseMemoryPool(memory_pool_id, out) ==
  /\ ~crashed
  /\ poolCall' = [op |-> "releaseMemoryPool", id |-> memory_pool_id]
  /\ crashed' = (out = "crash")
  /\ pools' = IF memory_pool_id \in PoolIds /\
                 out \in {"destroy", "redelete", "redestroy"}
                THEN [pools EXCEPT ![memory_pool_id] =
                        [state |-> "freed", deletes |-> Bump(@.deletes)]]
                ELSE pools
  /\ refs' = IF memory_pool_id \in PoolIds /\ out \in {"destroy", "redestroy"}
               THEN [refs EXCEPT ![memory_pool_id] =
                       [held |-> FALSE, deletes |-> Bump(@.deletes)]]
               ELSE refs
  /\ defaultDeletes' = IF memory_pool_id = DefaultPoolAddr /\ out = "redelete"
                         THEN Bump(defaultDeletes) ELSE defaultDeletes
  /\ UNCHANGED <<lifecycle, default_memory_pool_id, hostIds, nextPool>>
  /\ PoolFrame

(***************************************************************************)
(* ReserveFromJava called from several threads                             *)
(***************************************************************************)
Threads == 1..NumThreads

Idle ==
  [pc |-> "idle", op |-> "none", size |-> 0, attached |-> TRUE,
   raised |-> FALSE, status |-> "none", hostCalls |-> <<>>]

EnvOf_shared(t) == 1

\* The JNIEnv that vm_->GetEnv stores in the local variable env: the one of
\* the calling thread.
EnvOf(t) == t

\* A thread that is in no call, or whose call has returned, enters
\* OnReservation or OnRelease with its size; attached is whether the thread
\* is attached to the Java VM.
EnterBridge(t, op, size, attached) ==
  /\ thr[t].pc \in {"idle", "returned"}
  /\ thr' = [thr EXCEPT ![t] = [Idle EXCEPT !.pc = "GetEnv", !.op = op,
                                            !.size = size,
                                            !.attached = attached]]
  /\ UNCHANGED pending

\* vm_->GetEnv(&env, JNI_VERSION) != JNI_OK returns Status::Invalid.
GetEnv(t) ==
  /\ thr[t].pc = "GetEnv"
  /\ thr' = [thr EXCEPT ![t] =
               IF @.attached
                 THEN [@ EXCEPT !.pc = "CallObjectMethod"]
                 ELSE [@ EXCEPT !.pc = "returned",
                         !.status = "JNIEnv was not attached to current thread"]]
  /\ UNCHANGED pending

\* env->CallObjectMethod(java_reservation_listener_, method, size); raises is
\* whether the Java method raises, which leaves the exception pending in env.
CallObjectMethod(t, raises) ==
  /\ thr[t].pc = "CallObjectMethod"
  /\ thr' = [thr EXCEPT ![t] =
               [@ EXCEPT !.pc = "CheckException", !.raised = raises,
                         !.hostCalls = Append(@,
                            [method |-> IF thr[t].op = "OnReservation"
                                          THEN "reserve" ELSE "unreserve",
                             size |-> thr[t].size])]]
  /\ pending' = [pending EXCEPT ![EnvOf(t)] = @ \/ raises]

\* RETURN_NOT_OK(CheckException(env)); return Status::OK(): the pending
\* exception of env, if any, is taken and becomes the status.
ReturnStatus(t) ==
  /\ thr[t].pc = "CheckException"
  /\ thr' = [thr EXCEPT ![t] =
               [@ EXCEPT !.pc = "returned",
                         !.status = CheckException(pending[EnvOf(t)])]]
  /\ pending' = [pending EXCEPT ![EnvOf(t)] = FALSE]

(***************************************************************************)
(* releaseMemoryPool, statement by statement                               *)
(***************************************************************************)
\* pool: the ReservationListenableMemoryPool; ref: the global reference to
\* the Java listener; owners: the shared_ptr owners of the ReserveFromJava
\* object; outstanding: allocations of the pool not yet freed; pc: the last
\* statement of releaseMemoryPool executed; lastBridge: what made the pool
\* call its listener last; stale: history, the pool called OnReservation or
\* OnRelease when the reference was deleted or the listener destroyed.
NoPool ==
  [pool |-> "none", ref |-> "none", owners |-> 0, outstanding |-> 0,
   pc |-> "none", lastBridge |-> "none", stale |-> FALSE]

ReleaseSteps_refFirst == <<"get_listener", "DeleteGlobalRef", "delete pool">>

\* The statements of releaseMemoryPool on a listenable pool, in the order of
\* the source: pool->get_listener() into rm, delete pool, DeleteGlobalRef.
ReleaseSteps == <<"get_listener", "delete pool", "DeleteGlobalRef">>

\* The statement releaseMemoryPool(p) executes next.
NextStep(p) ==
  IF rel[p].pc = "none" THEN ReleaseSteps[1]
  ELSE IF rel[p].pc = "returned" THEN "none"
  ELSE LET i == CHOOSE k \in 1..3 : ReleaseSteps[k] = rel[p].pc
       IN IF i < 3 THEN ReleaseSteps[i + 1] ELSE "return"

\* A call of OnReservation / OnRelease by pool p uses the ReserveFromJava
\* object and the global reference it holds.
BridgeUse(r, owners) == r.stale \/ r.ref # "held" \/ owners = 0

\* createListenableMemoryPool succeeding: the reference is taken, the
\* listener is owned by the new pool.
CreatePool(p) ==
  /\ rel[p].pool = "none"
  /\ rel' = [rel EXCEPT ![p] = [NoPool EXCEPT !.pool = "live", !.ref = "held",
                                              !.owners = 1]]

\* An allocation through pool p while no release of it is running.
PoolAllocate(p) ==
  /\ rel[p].pool = "live" /\ rel[p].pc = "none"
  /\ rel[p].outstanding < MaxSize
  /\ rel' = [rel EXCEPT ![p] =
               [@ EXCEPT !.outstanding = @ + 1, !.lastBridge = "Allocate",
                         !.stale = BridgeUse(rel[p], rel[p].owners)]]

PoolFree(p) ==
  /\ rel[p].pool = "live" /\ rel[p].pc = "none"
  /\ rel[p].outstanding > 0
  /\ rel' = [rel EXCEPT ![p] =
               [@ EXCEPT !.outstanding = @ - 1, !.lastBridge = "Free",
                         !.stale = BridgeUse(rel[p], rel[p].owners)]]

\* rm = dynamic_pointer_cast<ReserveFromJava>(pool->get_listener()): a
\* second owner of the listener.
ReleaseGetListener(p) ==
  /\ rel[p].pool = "live"
  /\ NextStep(p) = "get_listener"
  /\ rel' = [rel EXCEPT ![p] = [@ EXCEPT !.pc = "get_listener",
                                         !.owners = @ + 1]]

\* delete pool: the pool gives up its share of the listener; flush is
\* whether its destructor reports the outstanding allocations to the
\* listener with OnRelease.
ReleaseDeletePool(p, flush) ==
  /\ rel[p].pool = "live"
  /\ NextStep(p) = "delete pool"
  /\ rel' = [rel EXCEPT ![p] =
               IF flush /\ rel[p].outstanding > 0
                 THEN [@ EXCEPT !.pc = "delete pool", !.pool = "destroyed",
                                !.owners = @ - 1, !.outstanding = 0,
                                !.lastBridge = "destroy",
                                !.stale = BridgeUse(rel[p], rel[p].owners)]
                 ELSE [@ EXCEPT !.pc = "delete pool", !.pool = "destroyed",
                                !.owners = @ - 1]]

\* env->DeleteGlobalRef(rm->GetJavaReservationListener()).
ReleaseDeleteRef(p) ==
  /\ NextStep(p) = "DeleteGlobalRef"
  /\ rel' = [rel EXCEPT ![p] = [@ EXCEPT !.pc = "DeleteGlobalRef",
                                         !.ref = "deleted"]]

\* The function returns: rm goes out of scope.
ReleaseReturn(p) ==
  /\ NextStep(p) = "return"
  /\ rel' = [rel EXCEPT ![p] = [@ EXCEPT !.pc = "returned",
                                         !.owners = @ - 1]]

(***************************************************************************)
(* Specification of the handle-based entry points                          *)
(***************************************************************************)
NoCall == [op |-> "none", h |-> 0, ret |-> "void", thrown |-> "none"]

InitScan ==
  /\ registry = [h \in Handles |-> Absent]
  /\ nextId = 1
  /\ issued = [h \in Handles |-> "absent"]
  /\ closed = {}
  /\ eosCount = [h \in Handles |-> 0]
  /\ call = NoCall
  /\ outStruct = NullBatch
  /\ srcBatch = NullBatch
  /\ fileCall = NoFileCall

InitGen ==
  /\ hasNextLog = <<>>
  /\ nextCalls = 0
  /\ cur_rb = 0
  /\ delivered = <<>>
  /\ pull = NoPull
  /\ pullCount = 0
  /\ endCount = 0
  /\ faults = FALSE
  /\ imports = [released |-> 0, leaked |-> 0]
  /\ aborted = FALSE

InitPool ==
  /\ lifecycle = "before"
  /\ default_memory_pool_id = -1
  /\ hostIds = {}
  /\ nextPool = 1
  /\ pools = [p \in PoolIds |-> [state |-> "none", deletes |-> 0]]
  /\ refs = [p \in PoolIds |-> [held |-> FALSE, deletes |-> 0]]
  /\ defaultDeletes = 0
  /\ poolCall = [op |-> "none", id |-> 0]
  /\ live = [p \in PoolIds |-> [n \in Sizes |-> 0]]
  /\ reserved = [p \in PoolIds |-> [n \in Sizes |-> 0]]
  /\ unreserved = [p \in PoolIds |-> [n \in Sizes |-> 0]]
  /\ bridge = NoBridgeCall
  /\ bridgeFailed = FALSE
  /\ ops = 0
  /\ crashed = FALSE

InitFrag ==
  /\ itr_ = [next |-> 0, ended |-> FALSE]
  /\ states = <<>>
  /\ passes = <<>>
  /\ fragPulls = 0

InitThreads ==
  /\ thr = [t \in Threads |-> Idle]
  /\ pending = [t \in Threads |-> FALSE]

InitRelease == rel = [p \in PoolIds |-> NoPool]

Init ==
  /\ InitScan /\ InitGen /\ InitPool /\ InitFrag /\ InitThreads
  /\ InitRelease

\* The batch whose pull is also tried with a failing step: every column is a
\* slice at offset 1.
SlicedBatch ==
  [schema |-> "projected", num_rows |-> MaxBuf - 1,
   columns |-> [i \in 1..NumCols |->
                  [buf |-> Buffer(MaxBuf), offset |-> 1,
                   length |-> MaxBuf - 1, fresh |-> FALSE]]]

\* What the scan behind handle h can yield on its next pull, and the places
\* the pull can fail at.
ScanYields(h) ==
  IF registry[h].kind = "scanner" /\ registry[h].remaining > 0
    THEN Batches ELSE {NullBatch}

\* A batch whose columns all start at offset zero.
PlainBatch ==
  [schema |-> "projected", num_rows |-> MaxBuf,
   columns |-> [i \in 1..NumCols |->
                  [buf |-> Buffer(MaxBuf), offset |-> 0,
                   length |-> MaxBuf, fresh |-> FALSE]]]

\* The same with two representative batches.
ScanYieldsFew(h) ==
  IF registry[h].kind = "scanner" /\ registry[h].remaining > 0
    THEN {SlicedBatch, PlainBatch} ELSE {NullBatch}

ScanFailures(h, b) ==
  IF registry[h].kind = "scanner" /\ registry[h].remaining > 0
    THEN IF b = SlicedBatch THEN {"none", "scan", "concat", "export"}
         ELSE {"none"}
    ELSE {"none"}

OnlyScan ==
  UNCHANGED <<genVars, poolVars, fragVars, threadVars, relVars>>

NextScan ==
  \/ OnlyScan /\ \E id \in 0..1, ok \in BOOLEAN :
                    makeFileSystemDatasetFactory(id, ok)
  \/ OnlyScan /\ \E h \in HandlesFor("factory"), ok \in BOOLEAN :
                    inspectSchema(h, ok)
  \/ OnlyScan /\ \E h \in HandlesFor("factory"), ok \in BOOLEAN :
                    createDataset(h, ok)
  \/ OnlyScan /\ \E h \in HandlesFor("dataset"), p \in {0, DefaultPoolAddr},
                    ok \in BOOLEAN, n \in 0..MaxScanLen :
                    createScanner(h, p, ok, n)
  \/ OnlyScan /\ \E h \in HandlesFor("scanner"), ok \in BOOLEAN :
                    getSchemaFromScanner(h, ok)
  \/ OnlyScan /\ \E h \in HandlesFor("scanner") :
                    \E b \in ScanYieldsFew(h) : \E fail \in ScanFailures(h, b) :
                       nextRecordBatch(h, b, fail)
  \/ OnlyScan /\ \E h \in HandlesFor("scanner") : closeScanner(h)
  \/ OnlyScan /\ \E h \in HandlesFor("dataset") : closeDataset(h)
  \/ OnlyScan /\ \E h \in HandlesFor("factory") : closeDatasetFactory(h)

SpecScan == Init /\ [][NextScan]_vars

NextExport ==
  \/ OnlyScan /\ \E ok \in BOOLEAN : makeFileSystemDatasetFactory(0, ok)
  \/ OnlyScan /\ \E h \in HandlesFor("factory"), ok \in BOOLEAN :
                    createDataset(h, ok)
  \/ OnlyScan /\ \E h \in HandlesFor("dataset"), ok \in BOOLEAN,
                    n \in 0..MaxScanLen :
                    createScanner(h, DefaultPoolAddr, ok, n)
  \/ OnlyScan /\ \E h \in HandlesFor("scanner") :
                    \E b \in ScanYields(h) : \E fail \in ScanFailures(h, b) :
                       nextRecordBatch(h, b, fail)
  \/ OnlyScan /\ \E h \in HandlesFor("scanner"), ok \in BOOLEAN :
                    getSchemaFromScanner(h, ok)
  \/ OnlyScan /\ \E h \in HandlesFor("scanner") : closeScanner(h)
  \/ OnlyScan /\ \E h \in HandlesFor("dataset") : closeDataset(h)

\* Scans whose batches range over every combination of column slices.
SpecExport == Init /\ [][NextExport]_vars

WriteFailures == {"none", "vm", "schema", "scanner", "filesystem", "write"}

NextFormat ==
  \/ OnlyScan /\ \E id \in JInts, ok \in BOOLEAN :
                    makeFileSystemDatasetFactory(id, ok)
  \/ OnlyScan /\ \E id \in JLongs, fail \in WriteFailures :
                    writeFromScannerToFile(id, fail)
  \/ OnlyScan /\ \E h \in HandlesFor("factory") : closeDatasetFactory(h)

\* The entry points that take a file format id.
SpecFormat == Init /\ [][NextFormat]_vars

OnlyGen ==
  UNCHANGED <<scanVars, poolVars, fragVars, threadVars, relVars>>

NextGen ==
  \/ OnlyGen /\ \E attached \in BOOLEAN, hn \in {"true", "false", "raise"},
                   nx \in {"ok", "raise"}, imp \in {"ok", "fail"} :
        \E res \in JavaIteratorNext(attached, hn, nx, imp, nextCalls + 1) :
           GeneratorCall(attached, hn, res)

SpecGen == Init /\ [][NextGen]_vars

OnlyPool ==
  UNCHANGED <<scanVars, genVars, fragVars, threadVars, relVars>>

NextPool ==
  \/ OnlyPool /\ \E ok \in BOOLEAN : JNI_OnLoad(ok)
  \/ OnlyPool /\ JNI_OnUnload
  \/ OnlyPool /\ getDefaultMemoryPool
  \/ OnlyPool /\ \E vmOk \in BOOLEAN : createListenableMemoryPool(vmOk)
  \/ OnlyPool /\ \E id \in ReleaseIds :
                    \E out \in ReleaseOutcomes(id) : releaseMemoryPool(id, out)

OnlyFrag ==
  UNCHANGED <<scanVars, genVars, poolVars, threadVars, relVars>>

NextFrag ==
  \/ OnlyFrag /\ ScanBatchesAsync
  \/ OnlyFrag /\ \E g \in 1..Len(states) : \E hn \in HasNextAnswers :
                    PullGenerator(g, hn)

\* Generators made from one fragment, pulled in any interleaving.
SpecFrag == Init /\ [][NextFrag]_vars

OnlyThreads ==
  UNCHANGED <<scanVars, genVars, poolVars, fragVars, relVars>>

NextThreads ==
  \/ OnlyThreads /\ \E t \in Threads, op \in {"OnReservation", "OnRelease"},
                       n \in Sizes, attached \in BOOLEAN :
                       EnterBridge(t, op, n, attached)
  \/ OnlyThreads /\ \E t \in Threads : GetEnv(t)
  \/ OnlyThreads /\ \E t \in Threads, raises \in BOOLEAN :
                       CallObjectMethod(t, raises)
  \/ OnlyThreads /\ \E t \in Threads : ReturnStatus(t)

\* Threads calling one ReserveFromJava, their steps interleaved.
SpecThreads == Init /\ [][NextThreads]_vars

OnlyRelease ==
  UNCHANGED <<scanVars, genVars, poolVars, fragVars, threadVars>>

NextRelease ==
  \/ OnlyRelease /\ \E p \in PoolIds : CreatePool(p)
  \/ OnlyRelease /\ \E p \in PoolIds : PoolAllocate(p)
  \/ OnlyRelease /\ \E p \in PoolIds : PoolFree(p)
  \/ OnlyRelease /\ \E p \in PoolIds : ReleaseGetListener(p)
  \/ OnlyRelease /\ \E p \in PoolIds, flush \in BOOLEAN :
                       ReleaseDeletePool(p, flush)
  \/ OnlyRelease /\ \E p \in PoolIds : ReleaseDeleteRef(p)
  \/ OnlyRelease /\ \E p \in PoolIds : ReleaseReturn(p)

\* releaseMemoryPool of live listenable pools, one statement at a time.
SpecRelease == Init /\ [][NextRelease]_vars

\* The life cycle of the library and of the memory pools.
SpecPool == Init /\ [][NextPool]_vars

NextBridge ==
  \/ OnlyPool /\ \E ok \in BOOLEAN : JNI_OnLoad(ok)
  \/ OnlyPool /\ \E vmOk \in BOOLEAN : createListenableMemoryPool(vmOk)
  \/ OnlyPool /\ \E p \in PoolIds, n \in Sizes, attached \in BOOLEAN,
                    raises \in BOOLEAN : Allocate(p, n, attached, raises)
  \/ OnlyPool /\ \E p \in PoolIds, n \in Sizes, attached \in BOOLEAN,
                    raises \in BOOLEAN : Free(p, n, attached, raises)

\* Allocations and frees through listenable pools.
SpecBridge == Init /\ [][NextBridge]_vars

(***************************************************************************)
(* Properties of the scan session and the handle-based entry points        *)
(***************************************************************************)
\* C1: once nextRecordBatch has reported end-of-stream on a scanner handle,
\* every later nextRecordBatch on that handle, while it is live, reports
\* end-of-stream again: it returns false, raises nothing, exports nothing
\* and leaves the scan exhausted.
C1_ScanExhaustionSticky ==
  [][(/\ call'.op = "nextRecordBatch"
      /\ eosCount[call'.h] > 0
      /\ registry[call'.h].kind = "scanner")
     => (/\ call'.ret = "false"
         /\ call'.thrown = "none"
         /\ outStruct' = NullBatch
         /\ registry'[call'.h].remaining = 0)]_vars

C1_Witness ==
  \E h \in Handles :
     /\ eosCount[h] = 2
     /\ call.op = "nextRecordBatch" /\ call.h = h /\ call.ret = "false"
     /\ call.thrown = "none"
     /\ registry[h].kind = "scanner"

\* A call that was rejected before it looked its handle up (createScanner
\* checks the memory pool first).
RejectedBeforeLookup(c) ==
  c.op = "createScanner" /\
  c.thrown = "Memory pool does not exist or has been closed"

C7_OffsetNormalization ==
  outStruct # NullBatch =>
    /\ outStruct.schema = srcBatch.schema
    /\ outStruct.num_rows = srcBatch.num_rows
    /\ Len(outStruct.columns) = Len(srcBatch.columns)
    /\ \A i \in 1..Len(srcBatch.columns) :
          /\ outStruct.columns[i].offset = 0
          /\ outStruct.columns[i].length = srcBatch.columns[i].length
          /\ \A k \in 1..srcBatch.columns[i].length :
                outStruct.columns[i].buf[k] =
                  srcBatch.columns[i].buf[srcBatch.columns[i].offset + k]

C7_Witness ==
  /\ outStruct # NullBatch
  /\ call.op = "nextRecordBatch" /\ call.ret = "true"
  /\ \E i \in 1..Len(srcBatch.columns) :
        srcBatch.columns[i].offset # 0 /\ srcBatch.columns[i].length > 0
  /\ \E i \in 1..Len(srcBatch.columns) : srcBatch.columns[i].offset = 0

\* C18: a makeFileSystemDatasetFactory or writeFromScannerToFile call whose
\* file_format_id is not 0 fails, with "illegal file format id" unless a
\* step before GetFileFormat failed, creates no handle and does not reach
\* FileSystemDataset::Write; a 64-bit id whose low word is 0 included.
C18_IllegalFormatRejected ==
  [][(/\ call'.op \in {"makeFileSystemDatasetFactory", "writeFromScannerToFile"}
      /\ fileCall'.id # [hi |-> 0, lo |-> 0])
     => (/\ call'.thrown \in {"illegal file format id",
                              "Unable to get JavaVM instance",
                              "schema failed", "scanner failed"}
         /\ fileCall'.format = "none"
         /\ ~fileCall'.wrote
         /\ registry' = registry
         /\ nextId' = nextId)]_vars

\* The value an entry point returns when it fails.
Sentinel(op) ==
  IF op \in {"makeFileSystemDatasetFactory", "createDataset", "createScanner"}
    THEN "-1"
  ELSE IF op \in {"inspectSchema", "getSchemaFromScanner"} THEN "null"
  ELSE IF op = "nextRecordBatch" THEN "false"
  ELSE "void"

C21_ZeroOffsetPassedThrough ==
  outStruct # NullBatch =>
    \A i \in 1..Len(srcBatch.columns) :
       srcBatch.columns[i].offset = 0 =>
         /\ outStruct.columns[i] = srcBatch.columns[i]
         /\ ~outStruct.columns[i].fresh

C21_Witness ==
  /\ call.op = "nextRecordBatch" /\ call.ret = "true"
  /\ srcBatch.columns[1].offset # 0
  /\ outStruct.columns[1].fresh
  /\ srcBatch.columns[2].offset = 0 /\ srcBatch.columns[2].length > 0
  /\ outStruct.columns[2] = srcBatch.columns[2]

\* C23: nextRecordBatch returns true only after it pulled a batch and
\* exported it into the caller's struct, raising nothing; a call on a
\* scanner whose scan is at its end, and a call whose pull failed, return
\* false and leave the caller's struct as it was.
C23_TrueOnlyIfExported ==
  [][call'.op = "nextRecordBatch" =>
       /\ call'.ret = "true" =>
            /\ call'.thrown = "none"
            /\ srcBatch' # NullBatch
            /\ outStruct' = OffsetZeroedBatch(srcBatch')
            /\ registry[call'.h].kind = "scanner"
            /\ registry'[call'.h].remaining = registry[call'.h].remaining - 1
       /\ (registry[call'.h].kind = "scanner" /\ registry[call'.h].remaining = 0)
            => (call'.ret = "false" /\ call'.thrown = "none"
                /\ outStruct' = NullBatch)
       /\ call'.thrown = "scan failed" =>
            (call'.ret = "false" /\ outStruct' = NullBatch)]_vars

C23_Witness ==
  /\ call.op = "nextRecordBatch"
  /\ call.thrown = "scan failed"
  /\ call.ret = "false"
  /\ outStruct = NullBatch
  /\ registry[call.h].kind = "scanner" /\ registry[call.h].remaining > 0

(***************************************************************************)
(* Properties of the generator over the Java iterator                      *)
(***************************************************************************)
\* hasNext answered true n times and then false, and nothing else.
TrueThenFalse(log) ==
  /\ Len(log) >= 1
  /\ log[Len(log)] = "false"
  /\ \A i \in 1..(Len(log) - 1) : log[i] = "true"

AllTrue(log) == \A i \in 1..Len(log) : log[i] = "true"

\* C2: once the generator has reported end-of-stream, every later pull made
\* on an attached thread with a Java iterator that does not raise reports
\* end-of-stream again, whatever hasNext answers.
C2_GenExhaustionSticky ==
  [][(/\ endCount > 0
      /\ pullCount' # pullCount
      /\ pull'.attached
      /\ pull'.hasNext \in {"true", "false"}
      /\ ~faults')
     => pull'.result = "end"]_vars

\* C3: when hasNext answers true n times and then false and every next
\* returns a batch, the generator has delivered exactly b1..bn, in that
\* order, when it reports end-of-stream; and while hasNext has only
\* answered true, it has delivered exactly the batches next returned so far.
C3_InOrderThenEnd ==
  /\ (~faults /\ pull.result = "end" /\ TrueThenFalse(hasNextLog))
       => delivered = [i \in 1..(Len(hasNextLog) - 1) |-> i]
  /\ (~faults /\ AllTrue(hasNextLog))
       => /\ delivered = [i \in 1..Len(hasNextLog) |-> i]
          /\ endCount = 0

C3_Witness ==
  /\ ~faults
  /\ pull.result = "end"
  /\ hasNextLog = <<"true", "true", "true", "false">>
  /\ delivered = <<1, 2, 3>>

\* C11: the ArrowArray struct obtained from the Java iterator's next has been
\* released after every pull, whether ImportRecordBatch succeeded or failed.
C11_ImportStructAlwaysReleased == imports.leaked = 0

\* C12: a pull during which the Java iterator's hasNext or next raised
\* reports a failure: neither end-of-stream nor a batch, and not the death
\* of the process.
C12_HostErrorNeverSwallowed ==
  pull.raised => pull.result \notin {"end", "batch", "abort"}

\* C13: a pull made on a thread that is not attached to the Java VM returns
\* a failure to its caller and the process is not aborted.
C13_UnattachedPullRecoverable ==
  (pull.result # "none" /\ ~pull.attached)
    => (pull.result \notin {"end", "batch", "abort"} /\ ~aborted)

\* C14: once hasNext has answered false, no later pull calls hasNext or next
\* on the Java iterator.
C14_NoCallAfterEnd ==
  [][(\E i \in 1..Len(hasNextLog) : hasNextLog[i] = "false")
     => (hasNextLog' = hasNextLog /\ nextCalls' = nextCalls)]_vars

\* C15 as stated: in every state the number of next calls equals the number
\* of batches delivered, and every pull makes exactly one hasNext call and
\* at most one next call.
C15_NoBufferingAlways ==
  /\ [](nextCalls = Len(delivered))
  /\ [][pullCount' # pullCount
        => /\ Len(hasNextLog') = Len(hasNextLog) + 1
           /\ nextCalls' \in {nextCalls, nextCalls + 1}]_vars

\* C15 as amended: every pull makes at most one next call; a pull on an
\* attached thread makes exactly one hasNext call and a pull on an
\* unattached thread makes none; the number of next calls is never below the
\* number of batches delivered, and equals it as long as no pull has failed.
C15_NoBufferingUnlessFailed ==
  [][pullCount' # pullCount
     => /\ Len(hasNextLog') = Len(hasNextLog) + (IF pull'.attached THEN 1 ELSE 0)
        /\ nextCalls' \in {nextCalls, nextCalls + 1}
        /\ nextCalls' >= Len(delivered')
        /\ ~faults' => nextCalls' = Len(delivered')]_vars

C15_Witness ==
  /\ ~faults
  /\ pullCount = 3
  /\ nextCalls = 2
  /\ delivered = <<1, 2>>
  /\ Len(hasNextLog) = 3
  /\ pull.result = "end"

\* C16: however many Generators ScanBatchesAsync made from one fragment and
\* however their pulls interleave, no batch of the Java iterator is
\* delivered twice and at most one Generator delivers batches.
C16_OneReadPass ==
  /\ \A g, h \in 1..Len(passes) :
        \A i \in 1..Len(passes[g].delivered), j \in 1..Len(passes[h].delivered) :
           passes[g].delivered[i] = passes[h].delivered[j] => (g = h /\ i = j)
  /\ Cardinality({g \in 1..Len(passes) : passes[g].delivered # <<>>}) <= 1

(***************************************************************************)
(* Properties of ReserveFromJava and of allocation through a pool          *)
(***************************************************************************)
\* C5: OnReservation and OnRelease fail, without any call to the Java
\* listener, when the calling thread is not attached; they fail when the
\* listener's method raised; they return OK only after exactly one call
\* that raised nothing; and an allocation proceeds only after OnReservation
\* returned OK, so every live allocation was reserved with the listener.
C5_BridgeFailsClosed ==
  /\ bridge.op # "none" =>
       /\ ~bridge.attached => (bridge.status # "OK" /\ bridge.hostCalls = <<>>)
       /\ bridge.raised => bridge.status # "OK"
       /\ bridge.status = "OK" =>
            (bridge.attached /\ ~bridge.raised /\ Len(bridge.hostCalls) = 1)
       /\ (bridge.op = "OnReservation" /\ bridge.proceeded) =>
            bridge.status = "OK"
  /\ ~bridgeFailed =>
       \A p \in PoolIds, n \in Sizes : live[p][n] <= reserved[p][n]

C5_Witness ==
  /\ bridge.op = "OnReservation"
  /\ bridge.raised
  /\ bridge.status # "OK"
  /\ ~bridge.proceeded
  /\ \E p \in PoolIds, n \in Sizes : live[p][n] > 0

C17_BridgeThreadSafe ==
  \A t \in Threads :
     thr[t].pc = "returned" =>
       LET alone == IF thr[t].op = "OnReservation"
                      THEN OnReservation(thr[t].attached, thr[t].raised,
                                         thr[t].size)
                      ELSE OnRelease(thr[t].attached, thr[t].raised,
                                     thr[t].size)
       IN /\ thr[t].status = alone.status
          /\ thr[t].hostCalls = alone.hostCalls

C17_Witness ==
  /\ thr[1].pc = "returned" /\ thr[1].op = "OnReservation"
  /\ thr[1].status = "OK" /\ thr[1].size = 1
  /\ thr[2].pc = "CheckException" /\ thr[2].op = "OnRelease"
  /\ thr[2].raised /\ thr[2].size = 2

(***************************************************************************)
(* Properties of the memory pool entry points                              *)
(***************************************************************************)
\* C8: a releaseMemoryPool on a listenable pool that was already released
\* destroys nothing, deletes no global reference and does not fail.
C8_SecondReleaseNoOp ==
  [][(/\ poolCall'.op = "releaseMemoryPool"
      /\ poolCall'.id \in PoolIds
      /\ pools[poolCall'.id].state = "freed")
     => (pools' = pools /\ refs' = refs /\ ~crashed')]_vars

\* C9: the default memory pool is never destroyed through
\* releaseMemoryPool, whatever identifier getDefaultMemoryPool returned and
\* whenever it is passed back.
C9_DefaultPoolNeverDestroyed == defaultDeletes = 0

\* C10: the global reference of a listenable pool is held while the pool
\* lives and has been deleted exactly once when the pool is gone.
C10_RefDeletedExactlyOnce ==
  \A p \in PoolIds :
     /\ pools[p].state = "live" => (refs[p].held /\ refs[p].deletes = 0)
     /\ pools[p].state = "freed" => (~refs[p].held /\ refs[p].deletes = 1)

\* C20: a createListenableMemoryPool that failed holds no global reference
\* to the listener: a reference is held only for a pool that was created.
C20_FailedCreateHoldsNothing ==
  \A p \in PoolIds : refs[p].held => pools[p].state # "none"

\* C22: in releaseMemoryPool of a live listenable pool the global reference
\* is deleted only after the pool was destroyed, the ReserveFromJava object
\* still has an owner when and after the pool is destroyed, until the
\* function returns, and no OnReservation / OnRelease of the pool, those of
\* its destruction included, ran with the reference deleted or the listener
\* destroyed.
C22_PoolDestroyedBeforeRef ==
  \A p \in PoolIds :
     /\ rel[p].ref = "deleted" => rel[p].pool = "destroyed"
     /\ (rel[p].pool = "destroyed" /\ rel[p].pc # "returned")
          => rel[p].owners >= 1
     /\ ~rel[p].stale

C22_Witness ==
  \E p \in PoolIds :
     /\ rel[p].pc = "returned"
     /\ rel[p].lastBridge = "destroy"
     /\ rel[p].pool = "destroyed"
     /\ rel[p].ref = "deleted"
     /\ rel[p].owners = 0

====
